---- MODULE Spec2Model ----
(***************************************************************************)
(* Custom star-system content database (src/galaxy/CustomSystem.cpp):      *)
(* the body nodes, the system records, the sector-indexed database, the    *)
(* script (DSL) binding surface and the document (JSON) loader.            *)
(***************************************************************************)
EXTENDS Integers, Sequences, FiniteSets, TLC

\* ------------------------------------------------------------ bounds
MaxBodies == 3          \* body nodes that can be allocated in one run
MaxSystems == 2         \* system records that can be allocated in one run
MaxDeferred == 1        \* deferred (system, faction) pairs kept by the faction registry
MaxDbSystems == 4       \* records registered in the database-only specification
FixedOne == 4           \* raw steps of the fixed-point type per unit (1 << FRAC, scaled down)
DoubleSub == 2          \* steps of the floating-point grid per fixed-point step

\* ------------------------------------------------------------ values
\* A floating-point value is an integer count of steps of 1/(FixedOne*DoubleSub);
\* a fixed-point value is its raw integer, in steps of 1/FixedOne.
DoubleOne == FixedOne * DoubleSub

TruncDiv(a, b) == IF a >= 0 THEN a \div b ELSE -((-a) \div b)

\* fixed::FromDouble: scale and cast to the raw integer (the cast truncates).
FromDouble(d) == TruncDiv(d, DoubleSub)

\* fixed::ToDouble
ToDouble(f) == f * DoubleSub

\* fixed(num, denom)
Fixed(num, denom) == TruncDiv(num * FixedOne, denom)

\* SystemBody::BodyType, in the order of the enumeration
TYPE_GRAVPOINT == 0
TYPE_BROWN_DWARF == 1
TYPE_STAR_G == 2
TYPE_STAR_S_BH == 3
TYPE_STAR_IM_BH == 4
TYPE_STAR_SM_BH == 5
TYPE_PLANET_TERRESTRIAL == 6
TYPE_STARPORT_ORBITAL == 7
TYPE_STARPORT_SURFACE == 8
TYPE_STAR_MIN == TYPE_BROWN_DWARF
TYPE_STAR_MAX == TYPE_STAR_SM_BH
TYPE_MAX == TYPE_STARPORT_SURFACE

BodyIds == 1..MaxBodies
SysIds == 1..MaxSystems
NullPtr == 0

Sectors == {<<0, 0, 0>>, <<1, 0, 0>>, <<0, 0, 1>>}
NoSector == <<-1, -1, -1>>

\* Faction subsystem: the names it knows, and what GetFaction returns.
KnownFactions == {"Fed"}
FactionNames == {"Fed", "Nope"}
NoFaction == "null"
BadFaction == "bad"
GetFaction(name) == IF name \in KnownFactions THEN name ELSE BadFaction

VARIABLES
    body,                \* BodyIds -> CustomSystemBody (st: free, live, deleted)
    csbHandle,           \* BodyIds -> the script handle of a body: none, live, empty, collected
    sys,                 \* SysIds -> CustomSystem (st: free, live, deleted)
    csysHandle,          \* SysIds -> the script handle of a system
    sectorMap,           \* m_sectorMap: sector -> sequence of system ids
    lastAdded,           \* m_lastAddedSystem: <<sector, index>>
    factionsInitialized, \* Factions::IsInitialized()
    deferred,            \* pairs handed to Factions::RegisterCustomSystem
    aborted,             \* the process was aborted (abort(), Error())
    assigned,            \* fields a script setter has stored a value into
    lastOp,              \* the operation that ran last, its arguments and outcome
    s_activeCustomSystemsDatabase,  \* the database a script load is filling, or null
    loader               \* the script load in progress: none, Load, LoadSystem

vars == <<body, csbHandle, sys, csysHandle, sectorMap, lastAdded,
          factionsInitialized, deferred, aborted, assigned, lastOp,
         s_activeCustomSystemsDatabase, loader>>

\* CustomSystemBody::CustomSystemBody
NewBody == [st |-> "live", name |-> "", type |-> TYPE_GRAVPOINT,
            radius |-> 0, mass |-> 0, aspectRatio |-> Fixed(1, 1),
            orbitalOffset |-> 0, orbitalPhaseAtStart |-> 0,
            rotationalPhaseAtStart |-> 0, seed |-> 0,
            want_rand_seed |-> TRUE, want_rand_offset |-> TRUE,
            want_rand_phase |-> TRUE,
            children |-> <<>>, childIndicies |-> <<>>]

FreeBody == [NewBody EXCEPT !.st = "free"]

\* CustomSystem::CustomSystem
NewSystem == [st |-> "live", numStars |-> 0, primaryType |-> TYPE_GRAVPOINT,
              sBody |-> NullPtr, bodies |-> <<>>, faction |-> NoFaction,
              sector |-> NoSector, systemIndex |-> -1,
              seed |-> 0, explored |-> FALSE, lawlessness |-> 0,
              want_rand_seed |-> TRUE, want_rand_explored |-> TRUE,
              want_rand_lawlessness |-> TRUE]

FreeSystem == [NewSystem EXCEPT !.st = "free"]

\* op: the handler; id: the record or body it was called on; arg: its numeric
\* argument; name: its faction-name argument; res: ok, error (a script error), null (no record returned) or abort;
\* getFaction: whether it called Factions::GetFaction
\* missing: the required field the loaded document lacked
\* primary, table: the body and the nested table that bodies() walked
\* ret: what a database query was asked and what it returned
NoRet == [path |-> NoSector, ref |-> <<>>, list |-> <<>>]

NoOp == [op |-> "init", id |-> 0, arg |-> 0, name |-> "", res |-> "ok",
         getFaction |-> FALSE, missing |-> "none", primary |-> 0, table |-> <<>>,
         ret |-> NoRet, outside |-> FALSE]

Op(o, i, a, n, r, g) ==
    [op |-> o, id |-> i, arg |-> a, name |-> n, res |-> r, getFaction |-> g,
     missing |-> "none", primary |-> 0, table |-> <<>>, ret |-> NoRet,
     outside |-> FALSE]

\* the one database object of the model
ThisDb == 1

\* m_sectorMap holds an entry only for a sector something was stored into
EmptySectorMap == [p \in {} |-> <<>>]

Init ==
    \* script handlers run only inside a load: one is under way
    /\ s_activeCustomSystemsDatabase = ThisDb
    /\ loader = "Load"
    /\ body = [b \in BodyIds |-> FreeBody]
    /\ csbHandle = [b \in BodyIds |-> "none"]
    /\ sys = [s \in SysIds |-> FreeSystem]
    /\ csysHandle = [s \in SysIds |-> "none"]
    /\ sectorMap = EmptySectorMap
    /\ lastAdded = <<NoSector, -1>>
    /\ factionsInitialized \in BOOLEAN
    /\ deferred = <<>>
    /\ aborted = FALSE
    /\ assigned = {}
    /\ lastOp = NoOp

\* ------------------------------------------------------------ helpers
FreeBodies == {b \in DOMAIN body : body[b].st = "free"}
FreeSystems == {s \in DOMAIN sys : sys[s].st = "free"}
FirstFree(S) == CHOOSE x \in S : \A y \in S : x <= y

\* Handles the script can still name: created and not yet collected.
CsbHandles == {h \in DOMAIN csbHandle : csbHandle[h] \in {"live", "empty"}}
CsysHandles == {h \in DOMAIN csysHandle : csysHandle[h] \in {"live", "empty"}}

\* Bodies reachable from a set of bodies through children links.
RECURSIVE Reach(_, _, _)
Reach(bs, frontier, seen) ==
    IF frontier = {} THEN seen
    ELSE LET next == UNION {{bs[b].children[k] : k \in DOMAIN bs[b].children} :
                              b \in frontier}
         IN Reach(bs, next \ (seen \cup frontier), seen \cup frontier)

Subtree(bs, root) == IF root = NullPtr THEN {} ELSE Reach(bs, {root}, {})

\* CustomSystemBody::~CustomSystemBody: the node and, recursively, its children.
DeleteBody(bs, root) ==
    [b \in DOMAIN bs |-> IF b \in Subtree(bs, root)
                       THEN [bs[b] EXCEPT !.st = "deleted"] ELSE bs[b]]

IsStarType(t) == t >= TYPE_STAR_MIN /\ t <= TYPE_STAR_MAX

\* count_stars, the recursion cut at depth fuel
RECURSIVE CountStarsFrom(_, _, _)
CountStarsFrom(bs, b, fuel) ==
    IF b = NullPtr \/ fuel = 0 THEN 0
    ELSE LET kids == bs[b].children
             RECURSIVE Sum(_)
             Sum(k) == IF k > Len(kids) THEN 0
                       ELSE CountStarsFrom(bs, kids[k], fuel - 1) + Sum(k + 1)
         IN (IF IsStarType(bs[b].type) THEN 1 ELSE 0) + Sum(1)

count_stars(bs, b) == CountStarsFrom(bs, b, MaxBodies + 1)

\* ------------------------------------------------------------ database
\* (variant: indices counted from one)
NewSystemIndex_OneBased(list) == Len(list) + 1

\* AddCustomSystem: the index given to a record appended to list
NewSystemIndex(list) == Len(list)

\* AddCustomSystem: the sector's list after the record is stored
StoreSystem(list, s) == Append(list, s)

\* s_emptySystemList
EmptySystemList == <<>>

\* GetCustomSystemsForSector: the sector's list, or the shared empty list
GetCustomSystemsForSector(map, path) ==
    IF path \in DOMAIN map THEN map[path] ELSE EmptySystemList

\* (variant: a miss returns a list made for the call)
SystemListRef_Fresh(map, path) ==
    IF path \in DOMAIN map THEN <<"m_sectorMap", path>> ELSE <<"temporary", path>>

\* GetCustomSystemsForSector: the object the returned reference names
SystemListRef(map, path) ==
    IF path \in DOMAIN map THEN <<"m_sectorMap", path>> ELSE <<"s_emptySystemList">>

\* ------------------------------------------------------------ outcomes
\* A caller queries the database (a const method: find, no insertion).
QuerySector(path) ==
    /\ ~aborted
    /\ UNCHANGED <<s_activeCustomSystemsDatabase, loader>>
    /\ lastOp' = [Op("GetCustomSystemsForSector", 0, 0, "", "ok", FALSE) EXCEPT
                    !.ret = [path |-> path,
                             ref |-> SystemListRef(sectorMap, path),
                             list |-> GetCustomSystemsForSector(sectorMap, path)]]
    /\ UNCHANGED <<body, csbHandle, sys, csysHandle, sectorMap, lastAdded,
                   factionsInitialized, deferred, aborted, assigned>>

Abort(o, i) ==
    /\ aborted' = TRUE
    /\ lastOp' = Op(o, i, 0, "", "abort", FALSE)
    /\ UNCHANGED <<body, csbHandle, sys, csysHandle, sectorMap, lastAdded,
                   factionsInitialized, deferred, assigned>>

\* luaL_error before the handler stored anything
Fail(o, i, a) ==
    /\ lastOp' = Op(o, i, a, "", "error", FALSE)
    /\ UNCHANGED <<body, csbHandle, sys, csysHandle, sectorMap, lastAdded,
                   factionsInitialized, deferred, aborted, assigned>>

\* ------------------------------------------------------------ script: bodies
BodyNames == {"", "a"}
BodyTypes == {TYPE_GRAVPOINT, TYPE_STAR_G, TYPE_PLANET_TERRESTRIAL}

l_csb_new(name, type) ==
    /\ ~aborted
    /\ loader # "none"
    /\ UNCHANGED <<s_activeCustomSystemsDatabase, loader>>
    /\ FreeBodies # {}
    /\ LET b == FirstFree(FreeBodies) IN
       IF type < TYPE_GRAVPOINT \/ type > TYPE_MAX
       THEN Fail("csb_new", 0, 0)
       ELSE /\ body' = [body EXCEPT ![b] = [NewBody EXCEPT !.name = name, !.type = type]]
            /\ csbHandle' = [csbHandle EXCEPT ![b] = "live"]
            /\ lastOp' = Op("csb_new", b, 0, "", "ok", FALSE)
            /\ UNCHANGED <<sys, csysHandle, sectorMap, lastAdded,
                           factionsInitialized, deferred, aborted, assigned>>

\* A body setter that stores fields f into the body and returns.
CsbStore(o, h, v, newBody, flds) ==
    /\ body' = [body EXCEPT ![h] = newBody]
    /\ assigned' = assigned \cup {<<"body", h, f>> : f \in flds}
    /\ lastOp' = Op(o, h, v, "", "ok", FALSE)
    /\ UNCHANGED <<csbHandle, sys, csysHandle, sectorMap, lastAdded,
                   factionsInitialized, deferred, aborted>>

\* CSB_FIELD_SETTER_FIXED(radius, radius): a negative value is reported and stored
l_csb_radius(h, v) ==
    /\ ~aborted
    /\ loader # "none"
    /\ UNCHANGED <<s_activeCustomSystemsDatabase, loader>>
    /\ h \in CsbHandles
    /\ IF csbHandle[h] = "empty" THEN Abort("csb_radius", h)
       ELSE CsbStore("csb_radius", h, v, [body[h] EXCEPT !.radius = FromDouble(v)], {})

\* CSB_FIELD_SETTER_FIXED(mass, mass)
l_csb_mass(h, v) ==
    /\ ~aborted
    /\ loader # "none"
    /\ UNCHANGED <<s_activeCustomSystemsDatabase, loader>>
    /\ h \in CsbHandles
    /\ IF csbHandle[h] = "empty" THEN Abort("csb_mass", h)
       ELSE CsbStore("csb_mass", h, v, [body[h] EXCEPT !.mass = FromDouble(v)], {})

\* l_csb_seed
l_csb_seed(h, v) ==
    /\ ~aborted
    /\ loader # "none"
    /\ UNCHANGED <<s_activeCustomSystemsDatabase, loader>>
    /\ h \in CsbHandles
    /\ IF csbHandle[h] = "empty" THEN Abort("csb_seed", h)
       ELSE CsbStore("csb_seed", h, v,
                     [body[h] EXCEPT !.seed = v, !.want_rand_seed = FALSE], {"seed"})

\* l_csb_orbital_offset
l_csb_orbital_offset(h, v) ==
    /\ ~aborted
    /\ loader # "none"
    /\ UNCHANGED <<s_activeCustomSystemsDatabase, loader>>
    /\ h \in CsbHandles
    /\ IF csbHandle[h] = "empty" THEN Abort("csb_orbital_offset", h)
       ELSE CsbStore("csb_orbital_offset", h, v,
                     [body[h] EXCEPT !.orbitalOffset = FromDouble(v),
                                     !.want_rand_offset = FALSE], {"offset"})

\* double(2.0 * M_PI), in floating-point units
TwoPi == (6283 * DoubleOne) \div 1000

\* The range test of both phase setters: TRUE when the value is refused
PhaseRefused(v) == (v < 0) \/ (v > TwoPi)

\* l_csb_orbital_phase_at_start
l_csb_orbital_phase_at_start(h, v) ==
    /\ ~aborted
    /\ loader # "none"
    /\ UNCHANGED <<s_activeCustomSystemsDatabase, loader>>
    /\ h \in CsbHandles
    /\ IF csbHandle[h] = "empty" THEN Abort("csb_orbital_phase_at_start", h)
       ELSE IF PhaseRefused(v) THEN Fail("csb_orbital_phase_at_start", h, v)
       ELSE CsbStore("csb_orbital_phase_at_start", h, v,
                     [body[h] EXCEPT !.orbitalPhaseAtStart = FromDouble(v),
                                     !.want_rand_phase = FALSE], {"phase"})

\* l_csb_rotational_phase_at_start
l_csb_rotational_phase_at_start(h, v) ==
    /\ ~aborted
    /\ loader # "none"
    /\ UNCHANGED <<s_activeCustomSystemsDatabase, loader>>
    /\ h \in CsbHandles
    /\ IF csbHandle[h] = "empty" THEN Abort("csb_rotational_phase_at_start", h)
       ELSE IF PhaseRefused(v) THEN Fail("csb_rotational_phase_at_start", h, v)
       ELSE CsbStore("csb_rotational_phase_at_start", h, v,
                     [body[h] EXCEPT !.rotationalPhaseAtStart = FromDouble(v)], {})

\* l_csb_aspect_ratio: the value is converted and stored, then tested
l_csb_aspect_ratio(h, v) ==
    /\ ~aborted
    /\ loader # "none"
    /\ UNCHANGED <<s_activeCustomSystemsDatabase, loader>>
    /\ h \in CsbHandles
    /\ IF csbHandle[h] = "empty" THEN Abort("csb_aspect_ratio", h)
       ELSE LET stored == FromDouble(v) IN
            /\ body' = [body EXCEPT ![h].aspectRatio = stored]
            /\ lastOp' = Op("csb_aspect_ratio", h, v, "",
                            IF stored < Fixed(1, 1) \/ stored > Fixed(10000, 1)
                            THEN "error" ELSE "ok", FALSE)
            /\ UNCHANGED <<csbHandle, sys, csysHandle, sectorMap, lastAdded,
                           factionsInitialized, deferred, aborted, assigned>>

l_csb_gc(h) ==
    /\ ~aborted
    /\ loader # "none"
    /\ UNCHANGED <<s_activeCustomSystemsDatabase, loader>>
    /\ h \in CsbHandles
    /\ body' = IF csbHandle[h] = "live" THEN DeleteBody(body, h) ELSE body
    /\ csbHandle' = [csbHandle EXCEPT ![h] = "collected"]
    /\ lastOp' = Op("csb_gc", h, 0, "", "ok", FALSE)
    /\ UNCHANGED <<sys, csysHandle, sectorMap, lastAdded,
                   factionsInitialized, deferred, aborted, assigned>>

\* ------------------------------------------------------------ validator
IsBlackHole(t) == t = TYPE_STAR_S_BH \/ t = TYPE_STAR_IM_BH \/ t = TYPE_STAR_SM_BH

NeedsSize(t) ==
    t # TYPE_STARPORT_ORBITAL /\ t # TYPE_STARPORT_SURFACE /\ t # TYPE_GRAVPOINT

\* checks: the two conditions that end in Error()
ChecksError(csb) ==
    \/ csb.name = ""
    \/ (csb.radius <= 0 /\ csb.mass <= 0 /\ NeedsSize(csb.type))

\* checks: 2 * mass * (G * SOL_MASS / LIGHT_SPEED^2) / SOL_RADIUS, as a floating-point
\* value; the physical ratio is scaled to 1/3 of the floating-point unit per mass unit.
Schwarzschild(mass) == (2 * ToDouble(mass)) \div 3

\* checks: the radius a body leaves the validator with
ChecksRadius(csb) ==
    IF IsBlackHole(csb.type) /\ ToDouble(csb.radius) < Schwarzschild(csb.mass)
    THEN FromDouble(Schwarzschild(csb.mass))
    ELSE csb.radius

\* CustomSystemBody::SanityChecks: checks on the node, then on each child. Every
\* check reads and writes its own node only, so the walk is given by the nodes it visits.
SanityChecksFail(bs, root) == \E b \in Subtree(bs, root) : ChecksError(bs[b])

SanityChecks(bs, root) ==
    [b \in DOMAIN bs |-> IF b \in Subtree(bs, root)
                       THEN [bs[b] EXCEPT !.radius = ChecksRadius(bs[b])]
                       ELSE bs[b]]

\* ------------------------------------------------------------ script: systems
StarLists == {<<>>, <<TYPE_STAR_G>>, <<TYPE_STAR_G, TYPE_STAR_G>>}

\* interpret_star_types: the star entries before the first gravity point or nil, at
\* most 4; the walk also stops at an entry of another type, which is the error case
RECURSIVE interpret_star_types(_, _)
interpret_star_types(stars, i) ==
    IF i >= 4 \/ i >= Len(stars) \/ ~IsStarType(stars[i + 1]) THEN i
    ELSE interpret_star_types(stars, i + 1)

l_csys_new(stars) ==
    /\ ~aborted
    /\ loader # "none"
    /\ UNCHANGED <<s_activeCustomSystemsDatabase, loader>>
    /\ FreeSystems # {}
    /\ LET s == FirstFree(FreeSystems)
           n == interpret_star_types(stars, 0) IN
       IF n < 4 /\ n < Len(stars) /\ stars[n + 1] # TYPE_GRAVPOINT
       THEN Fail("csys_new", 0, 0)
       ELSE /\ sys' = [sys EXCEPT ![s] = [NewSystem EXCEPT
                          !.numStars = n,
                          !.primaryType = IF n > 0 THEN stars[1] ELSE TYPE_GRAVPOINT]]
            /\ csysHandle' = [csysHandle EXCEPT ![s] = "live"]
            /\ lastOp' = Op("csys_new", s, 0, "", "ok", FALSE)
            /\ UNCHANGED <<body, csbHandle, sectorMap, lastAdded,
                           factionsInitialized, deferred, aborted, assigned>>

\* Factions::RegisterCustomSystem
RegisterCustomSystem(pairs, s, name) == Append(pairs, <<s, name>>)

\* A system setter that stores fields f into the record and returns.
CsysStore(o, h, v, newSys, flds) ==
    /\ sys' = [sys EXCEPT ![h] = newSys]
    /\ assigned' = assigned \cup {<<"sys", h, f>> : f \in flds}
    /\ lastOp' = Op(o, h, v, "", "ok", FALSE)
    /\ UNCHANGED <<body, csbHandle, csysHandle, sectorMap, lastAdded,
                   factionsInitialized, deferred, aborted>>

\* (variant: the flag is cleared whatever the seed)
CsysSeedFlag_Cleared(seed) == FALSE

\* l_csys_seed: the flag the setter leaves
CsysSeedFlag(seed) == seed = 0

\* l_csys_seed
l_csys_seed(h, v) ==
    /\ ~aborted
    /\ loader # "none"
    /\ UNCHANGED <<s_activeCustomSystemsDatabase, loader>>
    /\ h \in CsysHandles
    /\ IF csysHandle[h] = "empty" THEN Abort("csys_seed", h)
       ELSE CsysStore("csys_seed", h, v,
                      [sys[h] EXCEPT !.seed = v, !.want_rand_seed = CsysSeedFlag(v)],
                      {"seed"})

\* l_csys_explored (v is what lua_toboolean returns)
l_csys_explored(h, v) ==
    /\ ~aborted
    /\ loader # "none"
    /\ UNCHANGED <<s_activeCustomSystemsDatabase, loader>>
    /\ h \in CsysHandles
    /\ IF csysHandle[h] = "empty" THEN Abort("csys_explored", h)
       ELSE CsysStore("csys_explored", h, IF v THEN 1 ELSE 0,
                      [sys[h] EXCEPT !.explored = v, !.want_rand_explored = FALSE],
                      {"explored"})

\* l_csys_lawlessness
l_csys_lawlessness(h, v) ==
    /\ ~aborted
    /\ loader # "none"
    /\ UNCHANGED <<s_activeCustomSystemsDatabase, loader>>
    /\ h \in CsysHandles
    /\ IF csysHandle[h] = "empty" THEN Abort("csys_lawlessness", h)
       ELSE CsysStore("csys_lawlessness", h, v,
                      [sys[h] EXCEPT !.lawlessness = FromDouble(v),
                                     !.want_rand_lawlessness = FALSE],
                      {"lawlessness"})

\* (variant: the handler registers nothing)
DslDeferFaction_Skipped(pairs, s, name) == pairs

\* l_csys_faction, registration phase: what the handler does to the registry
DslDeferFaction(pairs, s, name) == RegisterCustomSystem(pairs, s, name)

\* l_csys_faction, resolved phase: the reference the handler stores
DslResolveFaction(name) == GetFaction(name)

l_csys_faction(h, name) ==
    /\ ~aborted
    /\ loader # "none"
    /\ UNCHANGED <<s_activeCustomSystemsDatabase, loader>>
    /\ h \in CsysHandles
    /\ IF csysHandle[h] = "empty" THEN Abort("csys_faction", h)
       ELSE IF ~factionsInitialized
       THEN /\ Len(deferred) < MaxDeferred
            /\ deferred' = DslDeferFaction(deferred, h, name)
            /\ lastOp' = Op("csys_faction", h, 0, name, "ok", FALSE)
            /\ UNCHANGED <<body, csbHandle, sys, csysHandle, sectorMap, lastAdded,
                           factionsInitialized, aborted, assigned>>
       ELSE /\ sys' = [sys EXCEPT ![h].faction = DslResolveFaction(name)]
            /\ lastOp' = Op("csys_faction", h, 0, name,
                            IF DslResolveFaction(name) = BadFaction THEN "error" ELSE "ok",
                            TRUE)
            /\ UNCHANGED <<body, csbHandle, csysHandle, sectorMap, lastAdded,
                           factionsInitialized, deferred, aborted, assigned>>

\* ------------------------------------------------------------ script: tree assembly
\* The nested table handed to bodies() is written as a token sequence: a body handle,
\* OpenTok for the start of a sub-table, CloseTok for its end.
MaxTableLen == 6
OpenTok == MaxBodies + 1
CloseTok == MaxBodies + 2

RECURSIVE Balanced(_, _, _)
Balanced(toks, i, depth) ==
    IF i > Len(toks) THEN depth = 0
    ELSE IF toks[i] = OpenTok THEN Balanced(toks, i + 1, depth + 1)
    ELSE IF toks[i] = CloseTok THEN depth > 0 /\ Balanced(toks, i + 1, depth - 1)
    ELSE Balanced(toks, i + 1, depth)

Tables ==
    {t \in UNION {[1..n -> BodyIds \cup {OpenTok, CloseTok}] : n \in 0..MaxTableLen} :
        Balanced(t, 1, 0)}

RECURSIVE add_children_to_sbody(_, _, _, _)
RECURSIVE add_sub_tables(_, _, _, _)

\* _add_children_to_sbody on the table that starts at token i, for parent sbody.
\* st = [h: the handles, b: the bodies, res: ok | error | abort]; the result is st
\* and the position after the table.
add_children_to_sbody(toks, i, sbody, st) ==
    IF st.res # "ok" THEN [i |-> i, st |-> st]
    ELSE IF i > Len(toks) \/ toks[i] = CloseTok THEN [i |-> i + 1, st |-> st]
    ELSE IF toks[i] = OpenTok THEN [i |-> i, st |-> [st EXCEPT !.res = "error"]]
    ELSE IF st.h[toks[i]] # "live" THEN [i |-> i, st |-> [st EXCEPT !.res = "abort"]]
    ELSE LET kid == toks[i]
             r == add_sub_tables(toks, i + 1, kid, [st EXCEPT !.h[kid] = "empty"])
         IN IF r.st.res # "ok" THEN r
            ELSE add_children_to_sbody(toks, r.i, sbody,
                    [r.st EXCEPT !.b[sbody].children = Append(@, kid)])

\* (variant: only the first sub-table after a body is walked)
add_sub_tables_Once(toks, i, kid, st) ==
    IF st.res = "ok" /\ i <= Len(toks) /\ toks[i] = OpenTok
    THEN add_children_to_sbody(toks, i + 1, kid, st)
    ELSE [i |-> i, st |-> st]

\* the inner loop: every sub-table that follows the body holds its children
add_sub_tables(toks, i, kid, st) ==
    IF st.res = "ok" /\ i <= Len(toks) /\ toks[i] = OpenTok
    THEN LET r == add_children_to_sbody(toks, i + 1, kid, st)
         IN add_sub_tables(toks, r.i, kid, r.st)
    ELSE [i |-> i, st |-> st]

\* l_csys_bodies: the star-count cross-check on the attached tree
StarCountOk(bs, root, numStars) == count_stars(bs, root) = numStars

l_csys_bodies(h, p, toks) ==
    /\ ~aborted
    /\ loader # "none"
    /\ UNCHANGED <<s_activeCustomSystemsDatabase, loader>>
    /\ h \in CsysHandles
    /\ p \in CsbHandles
    /\ \A k \in DOMAIN toks : toks[k] \in CsbHandles \cup {OpenTok, CloseTok}
    /\ IF csysHandle[h] = "empty" \/ csbHandle[p] = "empty"
       THEN Abort("csys_bodies", h)
       ELSE IF ~IsStarType(body[p].type) /\ body[p].type # TYPE_GRAVPOINT
       THEN Fail("csys_bodies", h, 0)
       ELSE IF body[p].type # sys[h].primaryType /\ body[p].type # TYPE_GRAVPOINT
       THEN Fail("csys_bodies", h, 0)
       ELSE LET r == add_children_to_sbody(toks, 1, p,
                        [h |-> csbHandle, b |-> body, res |-> "ok"]).st
                root == IF r.h[p] = "live" THEN p ELSE NullPtr
            IN IF r.res = "abort" THEN Abort("csys_bodies", h)
               ELSE IF r.res = "error"
               THEN /\ body' = r.b
                    /\ csbHandle' = r.h
                    /\ lastOp' = [Op("csys_bodies", h, 0, "", "error", FALSE)
                                    EXCEPT !.primary = p, !.table = toks]
                    /\ UNCHANGED <<sys, csysHandle, sectorMap, lastAdded,
                                   factionsInitialized, deferred, aborted, assigned>>
               ELSE /\ body' = r.b
                    /\ csbHandle' = [r.h EXCEPT ![p] = "empty"]
                    /\ sys' = [sys EXCEPT ![h].sBody = root]
                    /\ lastOp' = [Op("csys_bodies", h, 0, "",
                                    IF root # NullPtr /\ ~StarCountOk(r.b, root, sys[h].numStars)
                                    THEN "error" ELSE "ok", FALSE)
                                    EXCEPT !.primary = p, !.table = toks]
                    /\ UNCHANGED <<csysHandle, sectorMap, lastAdded,
                                   factionsInitialized, deferred, aborted, assigned>>

\* ------------------------------------------------------------ registration
\* CustomSystemsDatabase::AddCustomSystem(path, csys)
\* (m_sectorMap[path] makes the sector's entry when there is none)
AddCustomSystem(path, s, sysNow) ==
    LET list == IF path \in DOMAIN sectorMap THEN sectorMap[path] ELSE <<>> IN
    /\ sys' = [sysNow EXCEPT ![s].systemIndex = NewSystemIndex(list)]
    /\ lastAdded' = <<path, NewSystemIndex(list)>>
    /\ sectorMap' = [p \in DOMAIN sectorMap \cup {path} |->
                        IF p = path THEN StoreSystem(list, s) ELSE sectorMap[p]]

\* l_csys_add_to_sector: the validator's verdict on the record
DslSanityFail(bs, root) == SanityChecksFail(bs, root)

l_csys_add_to_sector(h, path) ==
    /\ ~aborted
    /\ loader # "none"
    /\ UNCHANGED <<s_activeCustomSystemsDatabase, loader>>
    /\ h \in CsysHandles
    /\ IF csysHandle[h] = "empty" THEN Abort("csys_add_to_sector", h)
       ELSE IF DslSanityFail(body, sys[h].sBody)
       THEN Abort("csys_add_to_sector", h)
       ELSE /\ body' = SanityChecks(body, sys[h].sBody)
            /\ AddCustomSystem(path, h, [sys EXCEPT ![h].sector = path])
            /\ csysHandle' = [csysHandle EXCEPT ![h] = "empty"]
            /\ lastOp' = Op("csys_add_to_sector", h, 0, "", "ok", FALSE)
            /\ UNCHANGED <<csbHandle, factionsInitialized, deferred, aborted, assigned>>

\* l_csys_gc: delete the record the handle still holds, and with it its tree
l_csys_gc(h) ==
    /\ ~aborted
    /\ loader # "none"
    /\ UNCHANGED <<s_activeCustomSystemsDatabase, loader>>
    /\ h \in CsysHandles
    /\ IF csysHandle[h] = "live"
       THEN /\ body' = DeleteBody(body, sys[h].sBody)
            /\ sys' = [sys EXCEPT ![h].st = "deleted"]
       ELSE UNCHANGED <<body, sys>>
    /\ csysHandle' = [csysHandle EXCEPT ![h] = "collected"]
    /\ lastOp' = Op("csys_gc", h, 0, "", "ok", FALSE)
    /\ UNCHANGED <<csbHandle, sectorMap, lastAdded,
                   factionsInitialized, deferred, aborted, assigned>>

\* ------------------------------------------------------------ document loader
MaxDocBodies == 2       \* bodies in one document
MaxDocChildren == 1     \* entries in one body's child-index list
MAX_STARS == 4

DocBodyDescs ==
    {[name |-> "a", type |-> TYPE_STAR_G, radius |-> FixedOne, mass |-> FixedOne],
     [name |-> "", type |-> TYPE_PLANET_TERRESTRIAL, radius |-> 0, mass |-> 0]}

DocChildLists(n) == UNION {[1..k -> 0..n] : k \in 0..MaxDocChildren}

DocBodyLists ==
    UNION {[1..n -> [desc : DocBodyDescs, children : DocChildLists(n)]] :
              n \in 1..MaxDocBodies}

DocFactions == {""} \cup FactionNames
DocStarLists == {<<TYPE_STAR_G>>, <<TYPE_STAR_G, TYPE_STAR_G>>}
DocSectors == {<<0, 0, 0>>}

\* missing: the required field the document lacks, if any
Docs ==
    [missing : {"none"}, stars : DocStarLists, faction : DocFactions,
     sector : DocSectors, bodies : DocBodyLists]
    \cup
    [missing : {"name", "bodies"}, stars : {<<TYPE_STAR_G>>}, faction : DocFactions,
     sector : DocSectors, bodies : {<<>>}]

\* CustomSystemBody::LoadFromJson
BodyFromJson(d) ==
    [NewBody EXCEPT !.name = d.name, !.type = d.type, !.radius = d.radius,
                    !.mass = d.mass, !.aspectRatio = 0]

\* LoadSystemFromJSON, first pass: the child indices kept for a body
KeptChildren(children, numBodies) ==
    SelectSeq(children, LAMBDA c : ~(c >= numBodies))

\* Json::get<uint32_t>: the value modulo 2^32, written as its two 16-bit halves
Uint32(c) == <<(c \div 65536) % 65536, c % 65536>>

\* LoadSystemFromJSON, first pass: childIndicies as stored
KeptChildIndices(children, numBodies) ==
    LET kept == KeptChildren(children, numBodies)
    IN  [j \in 1..Len(kept) |-> Uint32(kept[j])]

\* a position of the flat body list
InVector(u, ids) == u[1] = 0 /\ u[2] < Len(ids)

\* sys->bodies[u]: the element, or for a position outside the vector whatever
\* pointer the read yields
VectorAt(ids, u) == IF InVector(u, ids) THEN {ids[u[2] + 1]} ELSE BodyIds

\* second pass: the children sequences the dereferences can produce
ResolvedChildren(ids, idxs) ==
    {cs \in [1..Len(idxs) -> BodyIds] : \A j \in 1..Len(idxs) : cs[j] \in VectorAt(ids, idxs[j])}

\* LoadSystemFromJSON, registration phase: what the loader does to the registry
JsonDeferFaction(pairs, s, name) == RegisterCustomSystem(pairs, s, name)

\* (variant: the loader keeps whatever the lookup returned)
JsonResolveFaction_Kept(name) == GetFaction(name)

\* LoadSystemFromJSON, resolved phase: the reference the loader leaves in the record
JsonResolveFaction(name) ==
    IF GetFaction(name) = BadFaction THEN NoFaction ELSE GetFaction(name)

\* LoadSystemFromJSON: the star count kept from the document
JsonNumStars(stars) == IF Len(stars) > MAX_STARS THEN MAX_STARS ELSE Len(stars)

\* Json access to a required field: out_of_range when the document lacks it
ThrowsOutOfRange(doc, field) == doc.missing = field

\* (variant: the catch block returns the record it deleted)
JsonReturn_Record(thrown) == "ok"

\* LoadSystemFromJSON: the record returned, or nullptr from the catch block
JsonReturn(thrown) == IF thrown THEN "null" ELSE "ok"

LoadSystemFromJSON(doc) ==
    /\ ~aborted
    /\ UNCHANGED <<s_activeCustomSystemsDatabase, loader>>
    /\ FreeSystems # {}
    /\ Cardinality(FreeBodies) >= Len(doc.bodies)
    /\ LET s == FirstFree(FreeSystems)
           base == MaxBodies - Cardinality(FreeBodies)
           n == Len(doc.bodies)
           ids == [k \in 1..n |-> base + k]
           defer == doc.faction # "" /\ ~factionsInitialized
           lookup == doc.faction # "" /\ factionsInitialized
           sys1 == [NewSystem EXCEPT
                       !.numStars = JsonNumStars(doc.stars),
                       !.primaryType = doc.stars[1],
                       !.sector = doc.sector,
                       !.faction = IF lookup THEN JsonResolveFaction(doc.faction)
                                   ELSE NoFaction]
           flat == [k \in 1..n |->
                      [BodyFromJson(doc.bodies[k].desc) EXCEPT
                          !.childIndicies = KeptChildIndices(doc.bodies[k].children, n)]]
           outside == \/ ~InVector(Uint32(0), ids)
                      \/ \E k \in 1..n : \E j \in 1..Len(flat[k].childIndicies) :
                            ~InVector(flat[k].childIndicies[j], ids)
       IN
       IF ThrowsOutOfRange(doc, "name")
       THEN /\ lastOp' = [Op("LoadSystemFromJSON", 0, 0, doc.faction,
                               JsonReturn(TRUE), FALSE)
                               EXCEPT !.missing = doc.missing]
            /\ UNCHANGED <<body, csbHandle, sys, csysHandle, sectorMap, lastAdded,
                           factionsInitialized, deferred, aborted, assigned>>
       ELSE /\ defer => Len(deferred) < MaxDeferred
            /\ deferred' = IF defer THEN JsonDeferFaction(deferred, s, doc.faction)
                           ELSE deferred
            /\ IF ThrowsOutOfRange(doc, "bodies")
               THEN /\ sys' = IF defer THEN [sys EXCEPT ![s] = [sys1 EXCEPT !.st = "deleted"]]
                              ELSE sys
                    /\ lastOp' = [Op("LoadSystemFromJSON", s, 0, doc.faction,
                                       JsonReturn(TRUE), lookup)
                                       EXCEPT !.missing = doc.missing]
                    /\ UNCHANGED <<body, sectorMap, lastAdded, aborted>>
               ELSE \/ \E root \in VectorAt(ids, Uint32(0)) :
                       \E ch \in [1..n -> UNION {[1..k -> BodyIds] : k \in 0..MaxDocChildren}] :
                         /\ \A k \in 1..n :
                               ch[k] \in ResolvedChildren(ids, flat[k].childIndicies)
                         /\ body' = [b \in BodyIds |->
                                       IF b > base /\ b <= base + n
                                       THEN [flat[b - base] EXCEPT !.children = ch[b - base]]
                                       ELSE body[b]]
                         /\ AddCustomSystem(doc.sector, s,
                               [sys EXCEPT ![s] = [sys1 EXCEPT !.bodies = ids,
                                                               !.sBody = root]])
                         /\ lastOp' = [Op("LoadSystemFromJSON", s, 0, doc.faction,
                                           JsonReturn(FALSE), lookup)
                                           EXCEPT !.outside = outside]
                         /\ UNCHANGED aborted
                    \* a read outside the vector can also end the process
                    \/ /\ outside
                       /\ aborted' = TRUE
                       /\ lastOp' = [Op("LoadSystemFromJSON", s, 0, doc.faction,
                                           "crash", lookup) EXCEPT !.outside = TRUE]
                       /\ UNCHANGED <<body, sys, sectorMap, lastAdded>>
            /\ UNCHANGED <<csbHandle, csysHandle, factionsInitialized, assigned>>

\* ------------------------------------------------------------ faction subsystem
\* The faction subsystem leaves its registration phase.
FactionsInit ==
    /\ ~aborted
    /\ UNCHANGED <<s_activeCustomSystemsDatabase, loader>>
    /\ ~factionsInitialized
    /\ factionsInitialized' = TRUE
    /\ lastOp' = Op("FactionsInit", 0, 0, "", "ok", FALSE)
    /\ UNCHANGED <<body, csbHandle, sys, csysHandle, sectorMap, lastAdded,
                   deferred, aborted, assigned>>

\* ------------------------------------------------------------ specification
\* System records, faction resolution and registration, through both adapters.
SpecStarLists == {<<TYPE_STAR_G>>}
SpecSectors == {<<0, 0, 0>>}
SpecDocs ==
    [missing : {"none"}, stars : SpecStarLists, faction : DocFactions,
     sector : SpecSectors,
     bodies : {<<[desc |-> [name |-> "a", type |-> TYPE_STAR_G,
                            radius |-> FixedOne, mass |-> FixedOne],
                  children |-> <<>>]>>}]
    \cup
    [missing : {"name", "bodies"}, stars : SpecStarLists, faction : DocFactions,
     sector : SpecSectors, bodies : {<<>>}]

Next ==
    \/ \E stars \in SpecStarLists : l_csys_new(stars)
    \/ \E h \in SysIds, name \in FactionNames : l_csys_faction(h, name)
    \/ \E h \in SysIds, path \in SpecSectors : l_csys_add_to_sector(h, path)
    \/ \E h \in SysIds : l_csys_gc(h)
    \/ \E doc \in SpecDocs : LoadSystemFromJSON(doc)
    \/ FactionsInit

Spec == Init /\ [][Next]_vars

\* The document loader alone, over every document of the bounded set.
NextJson ==
    \/ \E doc \in Docs : LoadSystemFromJSON(doc)
    \/ FactionsInit

SpecJson == Init /\ [][NextJson]_vars

\* ------------------------------------------------------------ script loads
Loaders == {"Load", "LoadSystem"}

\* assert(!s_activeCustomSystemsDatabase)
AssertInactive(marker) == marker = NullPtr

\* (variant: LoadSystem returns without clearing the marker)
MarkerAtReturn_Kept(which) == IF which = "LoadSystem" THEN ThisDb ELSE NullPtr

\* s_activeCustomSystemsDatabase = nullptr before Load and LoadSystem return
MarkerAtReturn(which) == NullPtr

\* Load, LoadSystem up to the point where the script runs. A call made while a
\* load is in progress fails the assertion.
LoadBegin(which) ==
    /\ ~aborted
    /\ IF ~AssertInactive(s_activeCustomSystemsDatabase)
       THEN /\ aborted' = TRUE
            /\ lastOp' = Op(which, 0, 0, "", "abort", FALSE)
            /\ UNCHANGED <<s_activeCustomSystemsDatabase, loader, lastAdded>>
       ELSE /\ s_activeCustomSystemsDatabase' = ThisDb
            /\ loader' = which
            /\ lastAdded' = IF which = "LoadSystem" THEN <<lastAdded[1], -1>>
                            ELSE lastAdded
            /\ lastOp' = Op(which, 0, 0, "", "enter", FALSE)
            /\ UNCHANGED aborted
    /\ UNCHANGED <<body, csbHandle, sys, csysHandle, sectorMap,
                   factionsInitialized, deferred, assigned>>

\* lua_close: every handle the interpreter still holds is collected
LiveCsb == {h \in DOMAIN csbHandle : csbHandle[h] = "live"}
LiveCsys == {h \in DOMAIN csysHandle : csysHandle[h] = "live"}

lua_close_bodies ==
    LET roots == LiveCsb \cup {sys[h].sBody : h \in LiveCsys}
        gone == UNION {Subtree(body, r) : r \in roots}
    IN  [b \in DOMAIN body |-> IF b \in gone THEN [body[b] EXCEPT !.st = "deleted"]
                               ELSE body[b]]

\* Load, LoadSystem from the end of the script to the return. LoadSystem returns
\* the record added last, or null when the script added none.
LoadEnd ==
    /\ ~aborted
    /\ loader # "none"
    /\ body' = lua_close_bodies
    /\ sys' = [s \in DOMAIN sys |-> IF s \in LiveCsys THEN [sys[s] EXCEPT !.st = "deleted"]
                                    ELSE sys[s]]
    /\ csbHandle' = [h \in DOMAIN csbHandle |->
                        IF h \in CsbHandles THEN "collected" ELSE csbHandle[h]]
    /\ csysHandle' = [h \in DOMAIN csysHandle |->
                        IF h \in CsysHandles THEN "collected" ELSE csysHandle[h]]
    /\ s_activeCustomSystemsDatabase' = MarkerAtReturn(loader)
    /\ loader' = "none"
    /\ lastOp' = Op(loader,
                    IF loader = "LoadSystem" /\ lastAdded[2] # -1
                    THEN sectorMap[lastAdded[1]][lastAdded[2] + 1] ELSE 0,
                    0, "", "return", FALSE)
    /\ UNCHANGED <<sectorMap, lastAdded, factionsInitialized, deferred, aborted,
                   assigned>>

\* No load in progress, nothing made yet.
InitLoad ==
    /\ s_activeCustomSystemsDatabase = NullPtr
    /\ loader = "none"
    /\ body = [b \in BodyIds |-> FreeBody]
    /\ csbHandle = [b \in BodyIds |-> "none"]
    /\ sys = [s \in SysIds |-> FreeSystem]
    /\ csysHandle = [s \in SysIds |-> "none"]
    /\ sectorMap = EmptySectorMap
    /\ lastAdded = <<NoSector, -1>>
    /\ factionsInitialized = TRUE
    /\ deferred = <<>>
    /\ aborted = FALSE
    /\ assigned = {}
    /\ lastOp = NoOp

NextLoad ==
    \/ \E which \in Loaders : LoadBegin(which)
    \/ LoadEnd
    \/ \E name \in {"a"}, type \in {TYPE_STAR_G} : l_csb_new(name, type)
    \/ \E stars \in {<<TYPE_STAR_G>>} : l_csys_new(stars)
    \/ \E h \in SysIds, p \in BodyIds : l_csys_bodies(h, p, <<>>)
    \/ \E h \in SysIds, path \in SpecSectors : l_csys_add_to_sector(h, path)

SpecLoad == InitLoad /\ [][NextLoad]_vars

\* The loader over documents whose body list may be empty and whose child indices
\* are any integers: below 0, inside the list, past its end.
IndexChildLists(n) == UNION {[1..k -> (0 - 1)..n] : k \in 0..MaxDocChildren}

IndexDocs ==
    [missing : {"none"}, stars : {<<TYPE_STAR_G>>}, faction : {""},
     sector : DocSectors,
     bodies : UNION {[1..n -> [desc : {[name |-> "a", type |-> TYPE_STAR_G,
                                        radius |-> FixedOne, mass |-> FixedOne]},
                               children : IndexChildLists(n)]] :
                        n \in 0..MaxDocBodies}]

NextJsonIndex == \E doc \in IndexDocs : LoadSystemFromJSON(doc)

SpecJsonIndex == Init /\ [][NextJsonIndex]_vars

\* The database alone: records made by the script and stored into any sector.
DbSysIds == 1..MaxDbSystems

InitDb ==
    /\ s_activeCustomSystemsDatabase = ThisDb
    /\ loader = "Load"
    /\ body = [b \in BodyIds |-> FreeBody]
    /\ csbHandle = [b \in BodyIds |-> "none"]
    /\ sys = [s \in DbSysIds |-> FreeSystem]
    /\ csysHandle = [s \in DbSysIds |-> "none"]
    /\ sectorMap = EmptySectorMap
    /\ lastAdded = <<NoSector, -1>>
    /\ factionsInitialized = TRUE
    /\ deferred = <<>>
    /\ aborted = FALSE
    /\ assigned = {}
    /\ lastOp = NoOp

NextDb ==
    \/ \E stars \in SpecStarLists : l_csys_new(stars)
    \/ \E h \in DbSysIds, path \in Sectors : l_csys_add_to_sector(h, path)
    \/ \E path \in Sectors : QuerySector(path)

SpecDb == InitDb /\ [][NextDb]_vars

\* The field setters, on one body and one system record the script holds.
SeedValues == {0, 1}
OffsetValues == {0, DoubleOne}
PhaseValues == {-1, 0, TwoPi - 1, TwoPi, TwoPi + 1}
AspectValues == {DoubleOne - 1, DoubleOne, 10000 * DoubleOne,
                 10000 * DoubleOne + 1, 10000 * DoubleOne + DoubleSub}
LawlessnessValues == {0, DoubleOne \div 2}

InitSetters ==
    /\ s_activeCustomSystemsDatabase = ThisDb
    /\ loader = "Load"
    /\ body = [b \in BodyIds |-> IF b = 1 THEN [NewBody EXCEPT !.name = "a",
                                                              !.type = TYPE_STAR_G]
                                 ELSE FreeBody]
    /\ csbHandle = [b \in BodyIds |-> IF b = 1 THEN "live" ELSE "none"]
    /\ sys = [s \in SysIds |-> IF s = 1 THEN [NewSystem EXCEPT !.numStars = 1,
                                                              !.primaryType = TYPE_STAR_G]
                               ELSE FreeSystem]
    /\ csysHandle = [s \in SysIds |-> IF s = 1 THEN "live" ELSE "none"]
    /\ sectorMap = EmptySectorMap
    /\ lastAdded = <<NoSector, -1>>
    /\ factionsInitialized = TRUE
    /\ deferred = <<>>
    /\ aborted = FALSE
    /\ assigned = {}
    /\ lastOp = NoOp

NextSetters ==
    \/ \E h \in BodyIds, v \in SeedValues : l_csb_seed(h, v)
    \/ \E h \in BodyIds, v \in OffsetValues : l_csb_orbital_offset(h, v)
    \/ \E h \in BodyIds, v \in PhaseValues : l_csb_orbital_phase_at_start(h, v)
    \/ \E h \in BodyIds, v \in PhaseValues : l_csb_rotational_phase_at_start(h, v)
    \/ \E h \in BodyIds, v \in AspectValues : l_csb_aspect_ratio(h, v)
    \/ \E h \in SysIds, v \in SeedValues : l_csys_seed(h, v)
    \/ \E h \in SysIds, v \in BOOLEAN : l_csys_explored(h, v)
    \/ \E h \in SysIds, v \in LawlessnessValues : l_csys_lawlessness(h, v)

SpecSetters == InitSetters /\ [][NextSetters]_vars

\* The validator, on a chain of bodies attached to a record the script holds; the
\* root is the record's primary star and numStars counts the chain's stars.
CheckRootTypes == {TYPE_STAR_S_BH, TYPE_STAR_IM_BH, TYPE_STAR_SM_BH}
CheckTypes == {TYPE_PLANET_TERRESTRIAL, TYPE_STAR_S_BH, TYPE_STAR_IM_BH, TYPE_STAR_SM_BH}
CheckRadii == {0, 1, FixedOne}
CheckMasses == {0, FixedOne - 1, FixedOne}

InitChecks ==
    /\ s_activeCustomSystemsDatabase = ThisDb
    /\ loader = "Load"
    /\ \E ty \in [BodyIds -> CheckTypes], r \in [BodyIds -> CheckRadii],
          m \in [BodyIds -> CheckMasses] :
          /\ ty[1] \in CheckRootTypes
          /\ body = [b \in BodyIds |->
                    [NewBody EXCEPT !.name = "a", !.type = ty[b], !.radius = r[b],
                                    !.mass = m[b],
                                    !.children = IF b < MaxBodies THEN <<b + 1>> ELSE <<>>]]
          /\ sys = [s \in SysIds |->
                    IF s = 1
                    THEN [NewSystem EXCEPT
                            !.sBody = 1, !.primaryType = ty[1],
                            !.numStars = Cardinality({b \in BodyIds : IsStarType(ty[b])})]
                    ELSE FreeSystem]
    /\ csbHandle = [b \in BodyIds |-> "empty"]
    /\ csysHandle = [s \in SysIds |-> IF s = 1 THEN "live" ELSE "none"]
    /\ sectorMap = EmptySectorMap
    /\ lastAdded = <<NoSector, -1>>
    /\ factionsInitialized = TRUE
    /\ deferred = <<>>
    /\ aborted = FALSE
    /\ assigned = {}
    /\ lastOp = NoOp

NextChecks == \E h \in SysIds, path \in SpecSectors : l_csys_add_to_sector(h, path)

SpecChecks == InitChecks /\ [][NextChecks]_vars

\* Tree assembly alone: bodies() on a record and bodies the script holds, over every
\* nested table of the bounded set.
AssemblyTypes == {TYPE_STAR_G, TYPE_PLANET_TERRESTRIAL}

InitAssembly ==
    /\ s_activeCustomSystemsDatabase = ThisDb
    /\ loader = "Load"
    /\ \E ty \in [BodyIds -> AssemblyTypes] :
          /\ ty[1] = TYPE_STAR_G
          /\ body = [b \in BodyIds |-> [NewBody EXCEPT !.name = "a", !.type = ty[b]]]
    /\ csbHandle = [b \in BodyIds |-> "live"]
    /\ sys = [s \in SysIds |-> IF s = 1 THEN [NewSystem EXCEPT !.numStars = 1,
                                                              !.primaryType = TYPE_STAR_G]
                               ELSE FreeSystem]
    /\ csysHandle = [s \in SysIds |-> IF s = 1 THEN "live" ELSE "none"]
    /\ sectorMap = EmptySectorMap
    /\ lastAdded = <<NoSector, -1>>
    /\ factionsInitialized = TRUE
    /\ deferred = <<>>
    /\ aborted = FALSE
    /\ assigned = {}
    /\ lastOp = NoOp

\* The script's one statement: bodies() on the record and the primary body it holds.
NextAssembly ==
    /\ lastOp = NoOp
    /\ \E toks \in Tables : l_csys_bodies(1, 1, toks)

SpecAssembly == InitAssembly /\ [][NextAssembly]_vars

\* ------------------------------------------------------------ properties
\* C1: within every sector a record's systemIndex is its zero-based position in the
\* sector's list, and a step either leaves the list GetCustomSystemsForSector returns
\* as it was or appends one record at its end, so the list stays in registration order.
C1_IndexIsPosition ==
    [][\A p \in Sectors :
          LET old == GetCustomSystemsForSector(sectorMap, p)
              new == GetCustomSystemsForSector(sectorMap', p)
          IN /\ new = old \/ \E s \in DOMAIN sys : new = Append(old, s)
             /\ \A k \in 1..Len(new) : sys'[new[k]].systemIndex = k - 1]_vars

C1_Witness ==
    \E p \in DOMAIN sectorMap, q \in DOMAIN sectorMap :
        /\ p # q
        /\ Len(sectorMap[p]) >= 3
        /\ \A k \in 1..Len(sectorMap[p]) : sys[sectorMap[p][k]].systemIndex = k - 1
        /\ sys[sectorMap[q][1]].systemIndex = 0

\* The records the database holds.
Registered ==
    {s \in DOMAIN sys : \E p \in DOMAIN sectorMap :
        \E k \in DOMAIN sectorMap[p] : sectorMap[p][k] = s}

\* The nodes of the tree under root whose kind lies in the star-kind range.
StarNodes(bs, root) == Cardinality({b \in Subtree(bs, root) : IsStarType(bs[b].type)})

\* C2: a record that holds a body tree is in the database only if the number of
\* star-kind nodes of the tree equals the record's numStars, whichever adapter
\* attached the tree.
C2_StarCountChecked ==
    \A s \in Registered :
        sys[s].sBody # NullPtr => StarNodes(body, sys[s].sBody) = sys[s].numStars

\* C3: in every record of the database, whichever adapter registered it, no body at
\* any depth has an empty name, and no body other than a station or a gravity point
\* has both radius <= 0 and mass <= 0.
C3_ValidatedBeforeRegistered ==
    \A s \in Registered : \A b \in Subtree(body, sys[s].sBody) :
        /\ body[b].name # ""
        /\ ~(NeedsSize(body[b].type) /\ body[b].radius <= 0 /\ body[b].mass <= 0)

\* The step is a faction assignment with name n: the script handler on a record its
\* handle still holds, or the loader on a document that names a faction.
FactionAssigned ==
    /\ lastOp'.name # ""
    /\ lastOp'.id # 0
    /\ lastOp'.res # "abort"
    /\ lastOp'.op \in {"csys_faction", "LoadSystemFromJSON"}

\* C4: a faction assignment made while the faction subsystem is not initialized, in
\* either adapter, does not fail, leaves the record's faction reference null, hands
\* exactly one (record, name) pair to RegisterCustomSystem and does not call GetFaction.
C4_DeferredFaction ==
    [][(FactionAssigned /\ ~factionsInitialized) =>
        /\ deferred' = Append(deferred, <<lastOp'.id, lastOp'.name>>)
        /\ sys'[lastOp'.id].faction = NoFaction
        /\ ~lastOp'.getFaction
        /\ lastOp'.res # "error"
        /\ (lastOp'.missing = "none" => lastOp'.res = "ok")]_vars

C4_Witness ==
    /\ ~factionsInitialized
    /\ lastOp.op = "csys_faction"
    /\ lastOp.res = "ok"
    /\ deferred = <<<<lastOp.id, lastOp.name>>>>
    /\ sys[lastOp.id].faction = NoFaction

\* C5: a faction assignment made after the faction subsystem is initialized, with a
\* name GetFaction does not know, fails in the script handler; in the loader it leaves
\* the record's faction reference null and the record is still registered.
C5_UnknownFaction ==
    [][(FactionAssigned /\ factionsInitialized /\ lastOp'.name \notin KnownFactions) =>
        /\ lastOp'.getFaction
        /\ lastOp'.op = "csys_faction" => lastOp'.res = "error"
        /\ (lastOp'.op = "LoadSystemFromJSON" /\ lastOp'.missing = "none") =>
              /\ lastOp'.res = "ok"
              /\ sys'[lastOp'.id].faction = NoFaction
              /\ lastOp'.id \in Registered']_vars

C5_Witness ==
    /\ factionsInitialized
    /\ lastOp.op = "LoadSystemFromJSON"
    /\ lastOp.name \notin KnownFactions \cup {""}
    /\ lastOp.res = "ok"
    /\ sys[lastOp.id].faction = NoFaction
    /\ lastOp.id \in Registered

\* The (parent, position) links that point at body b among the bodies bs names.
ParentLinks(bs, nodes, b) ==
    {<<q, k>> \in nodes \X (1..(MaxDocChildren + 1)) :
        k <= Len(bs[q].children) /\ bs[q].children[k] = b}

\* C6: a record the loader registered holds a tree rooted at the first body of its
\* flat list: every body of the list is reached from the root, the root is no body's
\* child, and every other body is the child of exactly one parent, once.
C6_ResolvedTree ==
    \A s \in Registered :
        sys[s].bodies # <<>> =>
            LET nodes == {sys[s].bodies[k] : k \in DOMAIN sys[s].bodies}
                root == sys[s].bodies[1]
            IN /\ sys[s].sBody = root
               /\ Subtree(body, root) = nodes
               /\ \A b \in nodes :
                     Cardinality(ParentLinks(body, nodes, b)) = IF b = root THEN 0 ELSE 1

\* C7: a phase setter accepts v exactly when 0 <= v < 2*pi, and a refused call
\* leaves the body as it was.
C7_PhaseDomain ==
    [][lastOp'.op \in {"csb_orbital_phase_at_start", "csb_rotational_phase_at_start"} =>
        /\ (lastOp'.res = "ok") <=> (0 <= lastOp'.arg /\ lastOp'.arg < TwoPi)
        /\ lastOp'.res # "ok" => body' = body]_vars

\* C8: the aspect-ratio setter accepts v exactly when 1 <= v <= 10000.
C8_AspectDomain ==
    [][lastOp'.op = "csb_aspect_ratio" =>
        ((lastOp'.res = "ok") <=>
            (DoubleOne <= lastOp'.arg /\ lastOp'.arg <= 10000 * DoubleOne))]_vars

\* C9: when the validator has run over a record's tree, every black-hole body of the
\* tree has radius >= Schwarzschild(mass), a radius that was smaller is now exactly
\* that value, and every other radius is what it was.
C9_SchwarzschildFloor ==
    [][(lastOp'.op = "csys_add_to_sector" /\ lastOp'.res = "ok") =>
        \A b \in Subtree(body, sys[lastOp'.id].sBody) :
            LET s == Schwarzschild(body[b].mass) IN
            IF IsBlackHole(body[b].type) /\ ToDouble(body[b].radius) < s
            THEN ToDouble(body'[b].radius) = s
            ELSE body'[b].radius = body[b].radius]_vars

\* C10 as claimed: a flagged setter that returns leaves its flag cleared, whatever
\* the value.
C10_FlagAlwaysCleared ==
    [][lastOp'.res = "ok" =>
        /\ lastOp'.op = "csb_seed" => ~body'[lastOp'.id].want_rand_seed
        /\ lastOp'.op = "csb_orbital_offset" => ~body'[lastOp'.id].want_rand_offset
        /\ lastOp'.op = "csb_orbital_phase_at_start" => ~body'[lastOp'.id].want_rand_phase
        /\ lastOp'.op = "csys_seed" => ~sys'[lastOp'.id].want_rand_seed
        /\ lastOp'.op = "csys_explored" => ~sys'[lastOp'.id].want_rand_explored
        /\ lastOp'.op = "csys_lawlessness" => ~sys'[lastOp'.id].want_rand_lawlessness]_vars

\* C10 (amended): a flag is set exactly when no setter has stored a value into its
\* field, except the system seed's flag, which is set exactly when the seed is 0.
C10_FlagsFollowAssignment ==
    /\ \A b \in DOMAIN body : body[b].st = "live" =>
          /\ body[b].want_rand_seed <=> <<"body", b, "seed">> \notin assigned
          /\ body[b].want_rand_offset <=> <<"body", b, "offset">> \notin assigned
          /\ body[b].want_rand_phase <=> <<"body", b, "phase">> \notin assigned
    /\ \A s \in DOMAIN sys : sys[s].st = "live" =>
          /\ sys[s].want_rand_explored <=> <<"sys", s, "explored">> \notin assigned
          /\ sys[s].want_rand_lawlessness <=> <<"sys", s, "lawlessness">> \notin assigned
          /\ sys[s].want_rand_seed <=> (sys[s].seed = 0)

C10_Witness ==
    /\ lastOp.op = "csys_seed"
    /\ lastOp.arg = 0
    /\ <<"sys", lastOp.id, "seed">> \in assigned
    /\ sys[lastOp.id].want_rand_seed
    /\ \E b \in DOMAIN body :
          /\ {<<"body", b, "seed">>, <<"body", b, "offset">>, <<"body", b, "phase">>}
                \subseteq assigned
          /\ ~body[b].want_rand_seed /\ ~body[b].want_rand_offset /\ ~body[b].want_rand_phase
    /\ ~sys[lastOp.id].want_rand_explored
    /\ ~sys[lastOp.id].want_rand_lawlessness

\* The adjacency rule, read off the positions of the table's tokens.
\* Depth: the number of sub-tables open around position k.
Depth(toks, k) ==
    Cardinality({j \in 1..(k - 1) : toks[j] = OpenTok})
        - Cardinality({j \in 1..(k - 1) : toks[j] = CloseTok})

Last(S) == CHOOSE x \in S : \A y \in S : y <= x

\* No table begins with a sub-table.
WellFormed(toks) ==
    \A k \in DOMAIN toks : toks[k] = OpenTok =>
        /\ k > 1
        /\ toks[k - 1] # OpenTok

\* The table names bodies other than the primary, each once.
DistinctBodies(toks, primary) ==
    \A j, k \in DOMAIN toks :
        toks[j] \in BodyIds => (toks[j] # primary /\ (toks[j] = toks[k] => j = k))

\* The body the element at position k belongs under: the primary at the top level,
\* otherwise the last body seen before the sub-table that holds k was opened.
ParentOf(toks, k, primary) ==
    IF Depth(toks, k) = 0 THEN primary
    ELSE LET o == Last({j \in 1..(k - 1) :
                          toks[j] = OpenTok /\ Depth(toks, j) = Depth(toks, k) - 1})
         IN toks[Last({j \in 1..(o - 1) :
                          toks[j] \in BodyIds /\ Depth(toks, j) = Depth(toks, o)})]

PosOf(toks, v) == CHOOSE k \in DOMAIN toks : toks[k] = v

ExpectedChildren(toks, b, primary) ==
    SelectSeq(toks, LAMBDA v : v \in BodyIds /\ ParentOf(toks, PosOf(toks, v), primary) = b)

\* C11: bodies() on a well-formed table of distinct bodies the script still holds
\* does not fail in the walk and appends to every body's children exactly the
\* elements the adjacency rule puts under it, in the order they are written; a table
\* the walk completes on is well-formed.
C11_AdjacencyRule ==
    [][(/\ lastOp'.op = "csys_bodies"
        /\ lastOp'.primary # 0
        /\ DistinctBodies(lastOp'.table, lastOp'.primary)) =>
        LET toks == lastOp'.table
            p == lastOp'.primary
            walked == csbHandle'[p] = "empty"
        IN /\ walked => WellFormed(toks)
           /\ WellFormed(toks) =>
                 /\ walked
                 /\ \A b \in BodyIds :
                       body'[b].children = body[b].children \o ExpectedChildren(toks, b, p)]_vars

C11_Witness ==
    /\ lastOp.op = "csys_bodies"
    /\ lastOp.res = "ok"
    /\ \E a, b \in BodyIds :
          /\ lastOp.table = <<a, OpenTok, CloseTok, OpenTok, b, CloseTok>>
          /\ body[lastOp.primary].children = <<a>>
          /\ body[a].children = <<b>>

\* C12: a query for a sector nothing was registered into returns the empty list, by
\* reference to the one shared s_emptySystemList, and leaves the database as it was:
\* no entry is made for the sector queried.
C12_EmptySentinel ==
    [][lastOp'.op = "GetCustomSystemsForSector" =>
        /\ sectorMap' = sectorMap
        /\ sys' = sys
        /\ lastOp'.ret.path \notin DOMAIN sectorMap =>
              /\ lastOp'.ret.list = <<>>
              /\ lastOp'.ret.ref = <<"s_emptySystemList">>
              /\ lastOp'.ret.path \notin DOMAIN sectorMap']_vars

C12_Witness ==
    /\ lastOp.op = "GetCustomSystemsForSector"
    /\ DOMAIN sectorMap # {}
    /\ lastOp.ret.path \notin DOMAIN sectorMap
    /\ lastOp.ret.ref = <<"s_emptySystemList">>
    /\ lastOp.ret.list = <<>>

\* C13: a load that fails on an absent required field returns null and leaves the
\* database as it was, every sector's list and every registered record with its
\* index; a load of a complete document, whatever failed before it, returns the
\* record and appends it to its sector.
C13_FailedLoadIsSkipped ==
    [][lastOp'.op = "LoadSystemFromJSON" =>
        IF lastOp'.missing # "none"
        THEN /\ lastOp'.res = "null"
             /\ sectorMap' = sectorMap
             /\ \A s \in Registered : sys'[s] = sys[s]
        ELSE /\ lastOp'.res = "ok"
             /\ \A s \in Registered : sys'[s] = sys[s]
             /\ \E p \in DOMAIN sectorMap' :
                   /\ sectorMap'[p] = Append(GetCustomSystemsForSector(sectorMap, p),
                                             lastOp'.id)
                   /\ \A q \in DOMAIN sectorMap' \ {p} :
                         q \in DOMAIN sectorMap /\ sectorMap'[q] = sectorMap[q]]_vars

C13_Witness ==
    /\ lastOp.op = "LoadSystemFromJSON"
    /\ lastOp.res = "ok"
    /\ lastOp.id \in Registered
    /\ \E s \in DOMAIN sys : sys[s].st = "deleted" /\ s < lastOp.id

\* C14: the loader never reads a position outside the flat body list, neither for
\* the root nor for a child, whatever integers the document's child lists hold and
\* however many bodies it has.
C14_IndicesInsideList ==
    lastOp.op = "LoadSystemFromJSON" => ~lastOp.outside

\* C15: the marker is non-null exactly while one Load or LoadSystem call is in
\* progress; a call started while it is non-null fails its guard and ends the
\* process; every call that returns leaves the marker null.
C15_OneActiveLoad ==
    [][/\ (s_activeCustomSystemsDatabase' # NullPtr) <=> (loader' # "none")
       /\ (lastOp'.op \in Loaders /\ lastOp'.res = "return") =>
             s_activeCustomSystemsDatabase' = NullPtr
       /\ (lastOp'.op \in Loaders /\ lastOp'.res # "return"
              /\ s_activeCustomSystemsDatabase # NullPtr) =>
             (lastOp'.res = "abort" /\ aborted' /\ UNCHANGED loader)
       /\ (lastOp'.op \in Loaders /\ s_activeCustomSystemsDatabase = NullPtr) =>
             (lastOp'.res = "enter" /\ loader' = lastOp'.op)]_vars

C15_Witness ==
    /\ lastOp.op = "LoadSystem"
    /\ lastOp.res = "return"
    /\ lastOp.id \in Registered
    /\ s_activeCustomSystemsDatabase = NullPtr
    /\ \E s \in DOMAIN sys : sys[s].st = "deleted"

\* The owners of body b: its script handle if that still holds it, every position of
\* a live body's children list that names it, every live record whose root it is.
Owners(b) ==
    (IF csbHandle[b] = "live" THEN 1 ELSE 0)
    + Cardinality({<<q, k>> \in (DOMAIN body) \X (1..MaxTableLen) :
                      /\ body[q].st = "live"
                      /\ k <= Len(body[q].children)
                      /\ body[q].children[k] = b})
    + Cardinality({s \in DOMAIN sys : sys[s].st = "live" /\ sys[s].sBody = b})

\* C16: as long as the process runs, every body that was created and not destroyed
\* has exactly one owner: a script handle, one position of one parent's children
\* list, or the root slot of one record.
C16_ExactlyOneOwner ==
    ~aborted => \A b \in DOMAIN body : body[b].st = "live" => Owners(b) = 1

\* C17: every record named in a pair handed to RegisterCustomSystem is alive: no
\* pair names a record that was destroyed.
C17_DeferredRecordAlive ==
    \A k \in DOMAIN deferred : sys[deferred[k][1]].st = "live"

====
